---- MODULE Spec2Model ----
(***************************************************************************)
(* A model of the retrieval-augmented-generation pipeline of mini-rag:     *)
(* NLPController (index, search, reset, answer) over a vector store, an    *)
(* embedding backend, a template provider and a generation backend, and   *)
(* ChunkModel and ProjectModel over the document database.                 *)
(*                                                                         *)
(* Every controller method is an operator that returns the SET of runs the *)
(* method can make on a given store: one run per combination of answers    *)
(* its collaborators can give.  A run records the store after the call,    *)
(* how the call ended (returned / raised), the value returned and the      *)
(* ordered trace of the calls made to the collaborators.                   *)
(***************************************************************************)
EXTENDS Integers, Sequences, FiniteSets, TLC

VARIABLES vectordb, mongo, pc, last

vars == <<vectordb, mongo, pc, last>>

(***************************************************************************)
(* Bounds of the model.                                                    *)
(***************************************************************************)
\* Longest chunks / chunks_ids list handed to one index call.
MaxChunks == 2
\* Largest limit handed to a search or answer call.
MaxLimit == 2
\* Longest chunks list of an index call that runs beside another call.
MaxConcChunks == 1
\* Longest chunks list handed to insert_many_chunks, and largest batch_size.
MaxBatchInput == 3
MaxBatchSize == 2
\* Most chunk documents the chunk collection holds.
MaxStoredChunks == 4
\* Largest page_no and page_size handed to get_poject_chunks.
MaxPageNo == 3
MaxPageSize == 2

(***************************************************************************)
(* Python values.  None, False/True, lists and strings are kept apart, so  *)
(* that truthiness (`not x`) is computed as Python computes it.            *)
(***************************************************************************)
None == [t |-> "None"]
PyBool(b) == [t |-> "bool", v |-> b]
PyList(s) == [t |-> "list", v |-> s]
PyStr(s) == [t |-> "str", v |-> s]

\* bool(x): None, False, the empty list and the empty string are falsy.
Truthy(x) ==
  CASE x.t = "None" -> FALSE
    [] x.t = "bool" -> x.v
    [] x.t = "list" -> Len(x.v) > 0
    [] x.t = "str" -> Len(x.v) > 0

\* x is None
IsNone(x) == x.t = "None"

\* len(x) of a list or string.
PyLen(x) == Len(x.v)

(***************************************************************************)
(* Inputs.  A project identifier is a string of characters; Project        *)
(* accepts alphanumeric identifiers only.                                  *)
(***************************************************************************)
AlnumChars == {"p", "1", "2"}
IsAlnum(s) == Len(s) >= 1 /\ \A i \in 1..Len(s) : s[i] \in AlnumChars
ProjectIds == {s \in {<<"p", "1">>, <<"p", "2">>, <<"p", " ">>} : IsAlnum(s)}
Projects == {[project_id |-> s] : s \in ProjectIds}

\* DataChunk: chunk_text and chunk_metadata are what the controller reads.
DataChunk(text, metadata) == [chunk_text |-> text, chunk_metadata |-> metadata]

\* The chunks a caller may hand over, each with its identifier: chunk 1 in
\* two versions (its text and metadata change when its asset is processed
\* again) and chunk 2.
IdentifiedChunks ==
  { <<1, DataChunk("the cat sat", "a.txt")>>,
    <<1, DataChunk("the dog ran", "b.txt")>>,
    <<2, DataChunk("the dog ran", "b.txt")>> }
Queries == {"the cat sat", "physics"}

\* All sequences over S of length at most n.
SeqsUpTo(S, n) == UNION {[1..k -> S] : k \in 0..n}

(***************************************************************************)
(* Collection naming.                                                      *)
(***************************************************************************)
Whitespace == {" "}

RECURSIVE LStrip(_)
LStrip(s) ==
  IF Len(s) > 0 /\ Head(s) \in Whitespace THEN LStrip(Tail(s)) ELSE s

RECURSIVE RStrip(_)
RStrip(s) ==
  IF Len(s) > 0 /\ s[Len(s)] \in Whitespace
  THEN RStrip(SubSeq(s, 1, Len(s) - 1))
  ELSE s

\* str.strip()
Strip(s) == LStrip(RStrip(s))

\* create_collection_name that keeps the first character of the identifier.
create_collection_name_FirstChar(project_id) ==
  Strip(<<"collection_", project_id[1]>>)

\* f"collection_{project_id}".strip(); the prefix is kept as one token.
create_collection_name(project_id) == Strip(<<"collection_">> \o project_id)

CollectionNames == {create_collection_name(p) : p \in ProjectIds}

(***************************************************************************)
(* Embedding backend: embed(text, mode) -> vector of the backend's fixed   *)
(* dimensionality, deterministic per (text, mode); a call may instead      *)
(* return nothing (None) or raise.                                         *)
(***************************************************************************)
DOCUMENT == "document"
QUERY == "query"

embedding_size == 2

TextFeature(text) ==
  CASE text = "the cat sat" -> 1
    [] text = "the dog ran" -> 2
    [] OTHER -> 3

\* The vector of a text: its feature and the mode it was embedded in
\* (document and query encodings of one text differ).
Embedding(text, document_type) ==
  <<TextFeature(text), IF document_type = DOCUMENT THEN 1 ELSE 2>>

\* What one embed_text call can do: return the vector, return None, return
\* an empty vector, or raise.
EmbedOutcomes == {"ok", "none", "empty", "raise"}

\* The value embed_text returns under a non-raising outcome.
embed_text(text, document_type, outcome) ==
  CASE outcome = "ok" -> PyList(Embedding(text, document_type))
    [] outcome = "empty" -> PyList(<<>>)
    [] OTHER -> None

(***************************************************************************)
(* Vector store.  A collection has a fixed dimension and a set of records  *)
(* keyed by id.                                                            *)
(***************************************************************************)
NoCollection == [exists |-> FALSE, dim |-> 0, records |-> {}]
NewCollection(size) == [exists |-> TRUE, dim |-> size, records |-> {}]

\* createCollection(name, dim, reset): destroy and recreate on reset,
\* otherwise create if absent.
create_collection(db, collection_name, size, do_reset) ==
  IF do_reset \/ ~db[collection_name].exists
  THEN [db EXCEPT ![collection_name] = NewCollection(size)]
  ELSE db

\* deleteCollection(name)
delete_collection(db, collection_name) ==
  [db EXCEPT ![collection_name] = NoCollection]

\* An object as a client library hands it out, and the dictionary of it.
PyObject(fields) == [t |-> "object", v |-> fields]
PyDict(fields) == [t |-> "dict", v |-> fields]

\* get_collection_info(name): a description of the collection, None if there
\* is no such collection.  The store is not changed.
get_collection_info(db, collection_name) ==
  LET c == db[collection_name]
  IN  IF c.exists
      THEN PyObject([size |-> c.dim, points_count |-> Cardinality(c.records)])
      ELSE None

\* Upsert of one record: a record of the same id is replaced.
Upsert(records, rec) == {r \in records : r.id # rec.id} \cup {rec}

\* The store accepts a vector only if it has the collection's dimension.
ValidVector(vector, dim) == vector.t = "list" /\ Len(vector.v) = dim

\* Position of the first vector the collection rejects, 0 if none.
FirstInvalid(vectors, dim) ==
  LET bad == {i \in 1..Len(vectors) : ~ValidVector(vectors[i], dim)}
  IN  IF bad = {} THEN 0 ELSE CHOOSE i \in bad : \A j \in bad : i <= j

\* The records after the first k items of an upsert were committed, in order.
RECURSIVE UpsertPrefix(_, _, _, _, _, _)
UpsertPrefix(records, texts, metadata, vectors, record_ids, k) ==
  IF k = 0
  THEN records
  ELSE Upsert(UpsertPrefix(records, texts, metadata, vectors, record_ids, k - 1),
              [id |-> record_ids[k], text |-> texts[k],
               metadata |-> metadata[k], vector |-> vectors[k].v])

\* upsert(name, ids, vectors, texts, metadata): the runs of one write.  The
\* write succeeds when every record is committed.  It is rejected at the first
\* vector of the wrong dimension, and it may fail at any point (store
\* unreachable); a failed write raises and may have committed a prefix of the
\* records (no partial-commit guarantee).
insert_many(db, collection_name, texts, metadata, vectors, record_ids) ==
  LET c == db[collection_name]
      n == Len(record_ids)
      bad == FirstInvalid(vectors, c.dim)
      most == IF bad > 0 THEN bad - 1 ELSE n
      After(k) == [db EXCEPT ![collection_name].records =
                     UpsertPrefix(c.records, texts, metadata, vectors,
                                  record_ids, k)]
  IN  IF ~c.exists
      THEN {[db |-> db, raised |-> TRUE]}
      ELSE {[db |-> After(k), raised |-> TRUE] : k \in 0..most}
           \cup (IF bad = 0 THEN {[db |-> After(n), raised |-> FALSE]} ELSE {})

\* Similarity of a query vector and a stored vector (inner product).
RECURSIVE Dot(_, _, _)
Dot(q, d, i) == IF i = 0 THEN 0 ELSE q[i] * d[i] + Dot(q, d, i - 1)
Score(q, d) == Dot(q, d, Len(q))

Min(a, b) == IF a <= b THEN a ELSE b

\* RetrievedDocument of a stored record for a query vector.
RetrievedDocument(rec, vector) ==
  [text |-> rec.text, score |-> Score(vector, rec.vector)]

\* The rankings a search may return: the min(limit, size) best records, by
\* non-increasing score (records of equal score in either order).
Rankings(records, vector, limit) ==
  LET m == Min(limit, Cardinality(records))
  IN  { s \in [1..m -> records] :
          /\ \A i, j \in 1..m : i # j => s[i] # s[j]
          /\ \A i \in 1..m : \A j \in 1..m :
               i < j => Score(vector, s[i].vector) >= Score(vector, s[j].vector)
          /\ \A r \in records :
               (\A i \in 1..m : s[i] # r) =>
                 \A i \in 1..m :
                   Score(vector, s[i].vector) >= Score(vector, r.vector) }

\* The result slot of a call that raised.
Raised == [t |-> "raise"]

\* search(name, vector, limit) -> ranked list: what one search may give back.
\* No collection, or no match, gives no result (None or an empty list); a
\* vector that is not of the collection's dimension is refused, and the store
\* may be unreachable (the call raises).  The store is not changed.
search_by_vector(db, collection_name, vector, limit) ==
  LET c == db[collection_name]
  IN  IF ~c.exists \/ c.records = {} \/ limit <= 0
      THEN {None, PyList(<<>>), Raised}
      ELSE IF ~ValidVector(vector, c.dim)
      THEN {Raised}
      ELSE { PyList([i \in 1..Len(s) |-> RetrievedDocument(s[i], vector.v)]) :
               s \in Rankings(c.records, vector.v, limit) }
           \cup {Raised}

(***************************************************************************)
(* Template provider and generation backend.                               *)
(***************************************************************************)
\* A string of prompt text is a sequence of tokens: rendered fragments and
\* newline characters.
Token(key, variables) == [key |-> key, vars |-> variables]
NL == Token("\n", <<>>)

\* render(namespace, key, vars) -> text: pure substitution; the rendered
\* fragment is one token that carries its key and the substituted values.
template_get(group, key, variables) == PyStr(<<Token(key, variables)>>)

\* sep.join(parts), parts a sequence of strings.
RECURSIVE Join(_, _)
Join(sep, parts) ==
  IF Len(parts) = 0 THEN PyStr(<<>>)
  ELSE IF Len(parts) = 1 THEN parts[1]
  ELSE PyStr(parts[1].v \o sep.v \o Join(sep, Tail(parts)).v)

\* SYSTEM of a history opened in the user role.
SYSTEM_User == "user"

SYSTEM == "system"

\* buildMessage(text, role)
construct_prompt(prompt, role) == [role |-> role, content |-> prompt]

\* What one generate_text call can do: return a text, return nothing, raise.
GenerateOutcomes == {"ok", "none", "raise"}
generate_text(prompt, chat_history, outcome) ==
  IF outcome = "ok" THEN PyStr(<<Token("answer", <<>>)>>) ELSE None

(***************************************************************************)
(* Runs of a controller method.                                            *)
(***************************************************************************)
\* The result slot of a call whose value the controller drops.
Dropped == [t |-> "dropped"]

\* One call made to a collaborator, with what it gave back.
Call(name, args, result) == [call |-> name, args |-> args, result |-> result]

\* One run of a method: the store after it, "returned" or "raised", the value
\* returned and the calls made, in order.
Run(db, outcome, ret, trace) ==
  [db |-> db, outcome |-> outcome, ret |-> ret, trace |-> trace]

(***************************************************************************)
(* NLPController                                                           *)
(***************************************************************************)
\* reset_vector_db_collection: delete the project's collection and return
\* what the store returned.
reset_vector_db_collection(db, project) ==
  LET collection_name == create_collection_name(project.project_id)
  IN  { Run(delete_collection(db, collection_name), "returned", PyBool(TRUE),
            <<Call("delete_collection", <<collection_name>>, PyBool(TRUE))>>),
        Run(db, "raised", None,
            <<Call("delete_collection", <<collection_name>>, Raised)>>) }

\* json.loads(json.dumps(x, default=lambda x: x.__dict__)): an object comes
\* back as the dictionary of its attributes, None as None.
JsonRoundTrip(x) == IF x.t = "object" THEN PyDict(x.v) ELSE x

\* get_vector_db_collection_info
get_vector_db_collection_info(db, project) ==
  LET collection_name == create_collection_name(project.project_id)
      collection_info == get_collection_info(db, collection_name)
  IN  { Run(db, "returned", JsonRoundTrip(collection_info),
            <<Call("get_collection_info", <<collection_name>>, collection_info)>>),
        Run(db, "raised", None,
            <<Call("get_collection_info", <<collection_name>>, Raised)>>) }

\* The runs of the embedding loop over n texts: the outcomes of the calls
\* made, one per text in order; a call that raises is the last one made.
EmbedRuns(n) ==
  { e \in SeqsUpTo(EmbedOutcomes, n) :
      /\ \A i \in 1..(Len(e) - 1) : e[i] # "raise"
      /\ Len(e) < n => (Len(e) > 0 /\ e[Len(e)] = "raise") }

\* IndexDocumentType that embeds the chunks in query mode.
IndexDocumentType_Query == QUERY

\* The embedding mode index_into_vector_db asks for.
IndexDocumentType == DOCUMENT

\* CreateCollectionArgs that never asks for a reset.
CreateCollectionArgs_NoReset(collection_name, do_reset) ==
  <<collection_name, embedding_size, FALSE>>

\* The arguments index_into_vector_db hands to create_collection.
CreateCollectionArgs(collection_name, do_reset) ==
  <<collection_name, embedding_size, do_reset>>

\* InsertManyArgs that keys the records by position instead of chunks_ids.
InsertManyArgs_PositionalIds(collection_name, texts, metadata, vectors, chunks_ids) ==
  <<collection_name, texts, metadata, vectors,
    [i \in 1..Len(chunks_ids) |-> i - 1]>>

\* InsertManyArgs that hands over the vectors in the order opposite to the
\* texts'.
InsertManyArgs_ReversedVectors(collection_name, texts, metadata, vectors, chunks_ids) ==
  <<collection_name, texts, metadata,
    [i \in 1..Len(vectors) |-> vectors[Len(vectors) + 1 - i]], chunks_ids>>

\* The arguments index_into_vector_db hands to insert_many:
\* collection_name, texts, metadata, vectors, record_ids.
InsertManyArgs(collection_name, texts, metadata, vectors, chunks_ids) ==
  <<collection_name, texts, metadata, vectors, chunks_ids>>

\* EmbeddingRaised of a method that creates the collection before it embeds.
EmbeddingRaised_AfterCreate(db, collection_name, do_reset, trace) ==
  Run(create_collection(db, collection_name, embedding_size, do_reset),
      "raised", None,
      <<Call("create_collection",
             <<collection_name, embedding_size, do_reset>>, Dropped)>>
      \o trace)

\* The run in which an embed_text call of the loop raised: the loop stands
\* before every store call, and the exception leaves the method.
EmbeddingRaised(db, collection_name, do_reset, trace) ==
  Run(db, "raised", None, trace)

\* StoreFailed of a method that catches the store's exception and goes on to
\* `return True`.
StoreFailed_Swallowed(db, trace) == Run(db, "returned", PyBool(TRUE), trace)

\* The run in which create_collection or insert_many raised: neither call is
\* inside a try block, so the exception leaves the method.
StoreFailed(db, trace) == Run(db, "raised", None, trace)

\* index_into_vector_db
index_into_vector_db(db, project, chunks, chunks_ids, do_reset) ==
  LET \* Step 1
      collection_name == create_collection_name(project.project_id)
      \* Step 2
      texts == [i \in 1..Len(chunks) |-> chunks[i].chunk_text]
      metadata == [i \in 1..Len(chunks) |-> chunks[i].chunk_metadata]
      \* Step 3: one embed_text call per text
      EmbedCalls(e) ==
        [i \in 1..Len(e) |->
           Call("embed_text", <<texts[i], IndexDocumentType>>,
                IF e[i] = "raise" THEN Raised
                ELSE embed_text(texts[i], IndexDocumentType, e[i]))]
      AfterEmbedding(e) ==
        LET vectors ==
              [i \in 1..Len(texts) |->
                 embed_text(texts[i], IndexDocumentType, e[i])]
            \* Step 4: the value create_collection returns is dropped
            ca == CreateCollectionArgs(collection_name, do_reset)
            created == create_collection(db, ca[1], ca[2], ca[3])
            \* Step 5: the value insert_many returns is dropped
            ia == InsertManyArgs(collection_name, texts, metadata, vectors,
                                 chunks_ids)
        IN  {StoreFailed(db,
                 EmbedCalls(e) \o <<Call("create_collection", ca, Raised)>>)}
            \cup
            { IF w.raised
              THEN StoreFailed(w.db,
                       EmbedCalls(e) \o <<Call("create_collection", ca, Dropped),
                                          Call("insert_many", ia, Raised)>>)
              ELSE Run(w.db, "returned", PyBool(TRUE),
                       EmbedCalls(e) \o <<Call("create_collection", ca, Dropped),
                                          Call("insert_many", ia, Dropped)>>) :
              w \in insert_many(created, ia[1], ia[2], ia[3], ia[4], ia[5]) }
  IN  UNION { IF Len(e) > 0 /\ e[Len(e)] = "raise"
              THEN {EmbeddingRaised(db, collection_name, do_reset,
                                    EmbedCalls(e))}
              ELSE AfterEmbedding(e) :
              e \in EmbedRuns(Len(texts)) }

\* The embedding mode search_vector_db_collection asks for.
SearchDocumentType == QUERY

\* EmbeddingFailed that only tests for None.
EmbeddingFailed_OnlyNone(vector) == IsNone(vector)

\* `if not vector or len(vector) == 0`
EmbeddingFailed(vector) == ~Truthy(vector) \/ PyLen(vector) = 0

\* SearchByVectorArgs that asks the store for one document more.
SearchByVectorArgs_OneMore(collection_name, vector, limit) ==
  <<collection_name, vector, limit + 1>>

\* The arguments search_vector_db_collection hands to search_by_vector.
SearchByVectorArgs(collection_name, vector, limit) ==
  <<collection_name, vector, limit>>

\* `if not results`
NoResults(results) == ~Truthy(results)

\* SearchEffect of a search that creates the collection if it is absent.
SearchEffect_AutoCreate(db, collection_name) ==
  create_collection(db, collection_name, embedding_size, FALSE)

\* The store after search_vector_db_collection: the method makes no call that
\* creates, resets or writes a collection.
SearchEffect(db, collection_name) == db

\* search_vector_db_collection
search_vector_db_collection(db, project, text, limit) ==
  LET \* Step 1
      collection_name == create_collection_name(project.project_id)
      after == SearchEffect(db, collection_name)
      \* Step 2: embed the query
      EmbedCall(result) ==
        Call("embed_text", <<text, SearchDocumentType>>, result)
      AfterEmbedding(e) ==
        LET vector == embed_text(text, SearchDocumentType, e)
            sa == SearchByVectorArgs(collection_name, vector, limit)
        IN  IF EmbeddingFailed(vector)
            THEN {Run(after, "returned", PyBool(FALSE), <<EmbedCall(vector)>>)}
            ELSE \* Step 3
                 { IF results.t = "raise"
                   THEN Run(after, "raised", None,
                            <<EmbedCall(vector),
                              Call("search_by_vector", sa, Raised)>>)
                   ELSE Run(after, "returned",
                            IF NoResults(results) THEN PyBool(FALSE) ELSE results,
                            <<EmbedCall(vector),
                              Call("search_by_vector", sa, results)>>) :
                   results \in search_by_vector(db, sa[1], sa[2], sa[3]) }
  IN  UNION { IF e = "raise"
              THEN {Run(after, "raised", None, <<EmbedCall(Raised)>>)}
              ELSE AfterEmbedding(e) :
              e \in EmbedOutcomes }

\* The (None, None, None) triple.
NoAnswer == <<None, None, None>>

\* NoDocuments with the length test off by one: a single document counts as none.
NoDocuments_OffByOne(retrieved_documents) ==
  ~Truthy(retrieved_documents) \/ PyLen(retrieved_documents) <= 1

\* NoDocuments that only tests for None.
NoDocuments_OnlyNone(retrieved_documents) == IsNone(retrieved_documents)

\* `if not retrieved_documents or len(retrieved_documents) == 0`
NoDocuments(retrieved_documents) ==
  ~Truthy(retrieved_documents) \/ PyLen(retrieved_documents) = 0

\* DocumentVars that numbers the documents from 0.
DocumentVars_ZeroBased(idx, doc) == <<idx, doc.text>>

\* The substitution variables of the document fragment of the document at
\* (0-based) position idx: doc_num and chunk_text.
DocumentVars(idx, doc) == <<idx + 1, doc.text>>

\* "\n".join of the document fragments.
DocumentsPrompts(fragments) == Join(PyStr(<<NL>>), fragments)

\* FullPrompt that joins documents and footer by a single newline.
FullPrompt_SingleNewline(documents_prompts, footer_prompt) ==
  Join(PyStr(<<NL>>), <<documents_prompts, footer_prompt>>)

\* "\n\n".join([documents_prompts, footer_prompt])
FullPrompt(documents_prompts, footer_prompt) ==
  Join(PyStr(<<NL, NL>>), <<documents_prompts, footer_prompt>>)

\* Retrieve that asks the retriever a second time when the first answer is
\* 'no result'.
Retrieve_RetryOnEmpty(db, project, query, limit) ==
  LET first == search_vector_db_collection(db, project, query, limit)
  IN  {r \in first : r.outcome = "raised" \/ Truthy(r.ret)}
      \cup
      { [again EXCEPT !.trace = r.trace \o again.trace] :
          r \in {x \in first : x.outcome = "returned" /\ ~Truthy(x.ret)},
          again \in search_vector_db_collection(db, project, query, limit) }

\* Step 1 of answer_rag_question: one call of search_vector_db_collection.
Retrieve(db, project, query, limit) ==
  search_vector_db_collection(db, project, query, limit)

\* GenerationFailed that swallows the failure and returns the empty triple.
GenerationFailed_Swallowed(db, trace) == Run(db, "returned", NoAnswer, trace)

\* generate_text raised: nothing around the call catches it, the method ends
\* with the failure.
GenerationFailed(db, trace) == Run(db, "raised", None, trace)

\* AnswerTriple that hands the triple back in another order.
AnswerTriple_Misordered(answer, full_prompt, chat_history) ==
  <<full_prompt, answer, chat_history>>

\* `return answer, full_prompt, chat_history`
AnswerTriple(answer, full_prompt, chat_history) ==
  <<answer, full_prompt, chat_history>>

\* answer_rag_question
answer_rag_question(db, project, query, limit) ==
  LET Assemble(r) ==
        LET retrieved_documents == r.ret
            \* Step 2
            system_prompt == template_get("rag", "system_prompt", <<>>)
            SystemCall ==
              Call("template_parser.get", <<"rag", "system_prompt", <<>>>>,
                   system_prompt)
            n == IF retrieved_documents.t = "list"
                 THEN Len(retrieved_documents.v) ELSE 0
            document_vars ==
              [i \in 1..n |-> DocumentVars(i - 1, retrieved_documents.v[i])]
            fragments ==
              [i \in 1..n |->
                 template_get("rag", "document_prompt", document_vars[i])]
            DocumentCalls ==
              [i \in 1..n |->
                 Call("template_parser.get",
                      <<"rag", "document_prompt", document_vars[i]>>,
                      fragments[i])]
            documents_prompts == DocumentsPrompts(fragments)
            footer_prompt == template_get("rag", "footer_prompt", <<query>>)
            FooterCall ==
              Call("template_parser.get", <<"rag", "footer_prompt", <<query>>>>,
                   footer_prompt)
            \* Step 3
            message == construct_prompt(system_prompt, SYSTEM)
            chat_history == PyList(<<message>>)
            full_prompt == FullPrompt(documents_prompts, footer_prompt)
            before ==
              r.trace \o <<SystemCall>> \o DocumentCalls
              \o <<FooterCall,
                   Call("construct_prompt", <<system_prompt, SYSTEM>>, message)>>
            \* Step 4
            GenerateCall(result) ==
              Call("generate_text", <<full_prompt, chat_history>>, result)
        IN  IF retrieved_documents.t # "list"
            THEN \* enumerate() of a value that is no list raises
                 {Run(r.db, "raised", None, r.trace \o <<SystemCall>>)}
            ELSE { IF g = "raise"
                   THEN GenerationFailed(r.db, before \o <<GenerateCall(Raised)>>)
                   ELSE LET answer == generate_text(full_prompt, chat_history, g)
                        IN  Run(r.db, "returned",
                                AnswerTriple(answer, full_prompt, chat_history),
                                before \o <<GenerateCall(answer)>>) :
                   g \in GenerateOutcomes }
  IN  UNION { IF r.outcome = "raised"
              THEN {Run(r.db, "raised", None, r.trace)}
              ELSE IF NoDocuments(r.ret)
              THEN {Run(r.db, "returned", NoAnswer, r.trace)}
              ELSE Assemble(r) :
              r \in Retrieve(db, project, query, limit) }

(***************************************************************************)
(* The document database behind ChunkModel and ProjectModel: the project   *)
(* and chunk collections, each a list of documents in insertion order.     *)
(***************************************************************************)
EmptyMongo == [projects |-> <<>>, chunks |-> <<>>]

\* insert_one / InsertOne: the document is appended under a fresh _id (oid).
InsertedChunk(coll, doc) ==
  [oid |-> Len(coll) + 1, chunk_text |-> doc.chunk_text,
   chunk_metadata |-> doc.chunk_metadata, chunk_order |-> doc.chunk_order,
   chunk_project_id |-> doc.chunk_project_id,
   chunk_asset_id |-> doc.chunk_asset_id]

\* The collection after the first k operations of a bulk write, in order.
RECURSIVE InsertPrefix(_, _, _)
InsertPrefix(coll, operations, k) ==
  IF k = 0 THEN coll
  ELSE LET sofar == InsertPrefix(coll, operations, k - 1)
       IN  Append(sofar, InsertedChunk(sofar, operations[k]))

\* bulk_write(operations), ordered: the operations are applied one after the
\* other; the write succeeds when all are applied, and a write that fails at
\* one operation raises with the operations before that one applied.
bulk_write(coll, operations) ==
  {[coll |-> InsertPrefix(coll, operations, k), raised |-> TRUE] :
     k \in 0..(Len(operations) - 1)}
  \cup {[coll |-> InsertPrefix(coll, operations, Len(operations)),
          raised |-> FALSE]}

\* find({"chunk_project_id": project_id}): the matching documents, in the
\* collection's order.
FindByProject(coll, project_id) ==
  LET Matches(d) == d.chunk_project_id = project_id
  IN  SelectSeq(coll, Matches)

\* cursor.skip(k), k >= 0.
Skip(docs, k) == SubSeq(docs, k + 1, Len(docs))

\* cursor.limit(n), n >= 0: a limit of 0 is no limit.
Limit(docs, n) == IF n = 0 THEN docs ELSE SubSeq(docs, 1, Min(n, Len(docs)))

\* Project.get_indexes: the index on project_id is unique.
ProjectIdUnique == TRUE

\* find_one({"project_id": project_id}): the first such document, or None.
find_one(coll, project_id) ==
  LET hits == {i \in 1..Len(coll) : coll[i].project_id = project_id}
  IN  IF hits = {} THEN None
      ELSE coll[CHOOSE i \in hits : \A j \in hits : i <= j]

\* insert_one(doc) into the project collection: refused with a duplicate-key
\* error if the unique index already holds the document's project_id,
\* otherwise the document is appended under a fresh _id (oid).
insert_one(coll, doc) ==
  IF ProjectIdUnique /\ \E i \in 1..Len(coll) : coll[i].project_id = doc.project_id
  THEN [coll |-> coll, raised |-> TRUE, inserted_id |-> None]
  ELSE [coll |-> Append(coll, [t |-> "dict", oid |-> Len(coll) + 1,
                               project_id |-> doc.project_id]),
        raised |-> FALSE, inserted_id |-> Len(coll) + 1]

(***************************************************************************)
(* ProjectModel                                                            *)
(***************************************************************************)
\* Project(project_id=project_id): the id is unset.
NewProject(project_id) ==
  [t |-> "Project", id |-> None, project_id |-> project_id]

\* project.dict(by_alias=True, exclude_unset=True): the unset id is left out.
ProjectDict(project) == [project_id |-> project.project_id]

\* Project(**record): the stored _id comes back as id.
ProjectOf(record) ==
  [t |-> "Project", id |-> record.oid, project_id |-> record.project_id]

\* `if record is None`
RecordMissing(record) == IsNone(record)

(***************************************************************************)
(* ChunkModel                                                              *)
(***************************************************************************)
\* A DataChunk not yet stored: its id is unset.
NewDataChunk(text, order, project_id) ==
  [id |-> None, chunk_text |-> text, chunk_metadata |-> "a.txt",
   chunk_order |-> order, chunk_project_id |-> project_id,
   chunk_asset_id |-> 1]

\* chunk.dict(by_alias=True, exclude_unset=True) of such a chunk: the fields
\* that were set; the unset id is left out.
ChunkDict(chunk) ==
  [chunk_text |-> chunk.chunk_text, chunk_metadata |-> chunk.chunk_metadata,
   chunk_order |-> chunk.chunk_order,
   chunk_project_id |-> chunk.chunk_project_id,
   chunk_asset_id |-> chunk.chunk_asset_id]

\* DataChunk(**record): the stored _id comes back as id.
DataChunkOf(record) ==
  [id |-> record.oid, chunk_text |-> record.chunk_text,
   chunk_metadata |-> record.chunk_metadata,
   chunk_order |-> record.chunk_order,
   chunk_project_id |-> record.chunk_project_id,
   chunk_asset_id |-> record.chunk_asset_id]

\* Batch that reaches one chunk into the next batch.
Batch_OneMore(chunks, i, batch_size) ==
  SubSeq(chunks, i + 1, Min(i + batch_size + 1, Len(chunks)))

\* chunks[i:i + batch_size]
Batch(chunks, i, batch_size) ==
  SubSeq(chunks, i + 1, Min(i + batch_size, Len(chunks)))

\* The loop of insert_many_chunks from offset i on, batch_size >= 1: one
\* bulk_write per batch; a bulk_write that raises ends the call.
RECURSIVE BatchLoop(_, _, _, _, _)
BatchLoop(coll, chunks, batch_size, i, trace) ==
  IF i >= Len(chunks)
  THEN {Run(coll, "returned", Len(chunks), trace)}
  ELSE LET batch == Batch(chunks, i, batch_size)
           operations == [k \in 1..Len(batch) |-> ChunkDict(batch[k])]
       IN  UNION { IF w.raised
                   THEN {Run(w.coll, "raised", None,
                             Append(trace, Call("bulk_write", operations, Raised)))}
                   ELSE BatchLoop(w.coll, chunks, batch_size, i + batch_size,
                                  Append(trace,
                                         Call("bulk_write", operations, Dropped))) :
                   w \in bulk_write(coll, operations) }

\* insert_many_chunks, batch_size >= 1
insert_many_chunks(coll, chunks, batch_size) ==
  BatchLoop(coll, chunks, batch_size, 0, <<>>)

\* PageOffset that counts pages from 0.
PageOffset_FromZero(page_no, page_size) == page_no * page_size

\* (page_no - 1) * page_size
PageOffset(page_no, page_size) == (page_no - 1) * page_size

\* The records of one page: find, skip, limit.
PageRecords(coll, project_id, page_no, page_size) ==
  Limit(Skip(FindByProject(coll, project_id), PageOffset(page_no, page_size)),
        page_size)

\* get_poject_chunks, page_no >= 1: the page as DataChunk objects, unless the
\* read raises.
get_poject_chunks(coll, project_id, page_no, page_size) ==
  LET records == PageRecords(coll, project_id, page_no, page_size)
      find == Call("find", <<project_id, PageOffset(page_no, page_size),
                             page_size>>, Dropped)
  IN  { Run(coll, "returned",
            PyList([k \in 1..Len(records) |-> DataChunkOf(records[k])]),
            <<find>>),
        Run(coll, "raised", None, <<[find EXCEPT !.result = Raised]>>) }

(***************************************************************************)
(* The state machine: a request is served whole, then its result is handed *)
(* to the caller.                                                          *)
(***************************************************************************)
NoArgs ==
  [project |-> None, chunks |-> <<>>, chunks_ids |-> <<>>, do_reset |-> FALSE,
   text |-> "", limit |-> 0]

NoCall == [op |-> "none", args |-> NoArgs, before |-> <<>>, outcome |-> "none",
           ret |-> None, trace |-> <<>>]

\* A call served: the store takes the run's effect; `last` keeps the call,
\* the store as the call found it, and the run's outcome, value and trace.
Served(op, args, r) ==
  /\ vectordb' = r.db
  /\ last' = [op |-> op, args |-> args, before |-> vectordb,
              outcome |-> r.outcome, ret |-> r.ret, trace |-> r.trace]
  /\ pc' = "returned"
  /\ UNCHANGED mongo

\* The dimension of the embedding backend of an earlier configuration.
LegacySize == 3

\* A collection indexed under the earlier configuration: one record, whose
\* vector has that configuration's dimension.
LegacyCollection ==
  [exists |-> TRUE, dim |-> LegacySize,
   records |-> {[id |-> 1, text |-> "the cat sat", metadata |-> "a.txt",
                 vector |-> <<1, 1, 1>>]}]

\* The controller is built on a store that is empty, or that holds the
\* collection of one project from a run under the earlier configuration.
Init ==
  /\ \/ vectordb = [name \in CollectionNames |-> NoCollection]
     \/ vectordb = [name \in CollectionNames |->
                      IF name = create_collection_name(<<"p", "1">>)
                      THEN LegacyCollection
                      ELSE NoCollection]
  /\ mongo = EmptyMongo
  /\ pc = "idle"
  /\ last = NoCall

\* The chunks and their identifiers arrive together, one identifier per chunk.
IndexInputs == SeqsUpTo(IdentifiedChunks, MaxChunks)

Index ==
  /\ pc = "idle"
  /\ \E project \in Projects, items \in IndexInputs, do_reset \in BOOLEAN :
       LET chunks == [i \in 1..Len(items) |-> items[i][2]]
           chunks_ids == [i \in 1..Len(items) |-> items[i][1]]
       IN  \E r \in index_into_vector_db(vectordb, project, chunks,
                                         chunks_ids, do_reset) :
             Served("index",
                    [NoArgs EXCEPT !.project = project, !.chunks = chunks,
                                   !.chunks_ids = chunks_ids,
                                   !.do_reset = do_reset], r)

Reset ==
  /\ pc = "idle"
  /\ \E project \in Projects :
       \E r \in reset_vector_db_collection(vectordb, project) :
         Served("reset", [NoArgs EXCEPT !.project = project], r)

Search ==
  /\ pc = "idle"
  /\ \E project \in Projects, text \in Queries, limit \in 0..MaxLimit :
       \E r \in search_vector_db_collection(vectordb, project, text, limit) :
         Served("search",
                [NoArgs EXCEPT !.project = project, !.text = text,
                               !.limit = limit], r)

Answer ==
  /\ pc = "idle"
  /\ \E project \in Projects, query \in Queries, limit \in 0..MaxLimit :
       \E r \in answer_rag_question(vectordb, project, query, limit) :
         Served("answer",
                [NoArgs EXCEPT !.project = project, !.text = query,
                               !.limit = limit], r)

Info ==
  /\ pc = "idle"
  /\ \E project \in Projects :
       \E r \in get_vector_db_collection_info(vectordb, project) :
         Served("info", [NoArgs EXCEPT !.project = project], r)

\* The caller takes the result; the controller keeps nothing of the call.
Return ==
  /\ pc = "returned"
  /\ pc' = "idle"
  /\ last' = NoCall
  /\ UNCHANGED <<vectordb, mongo>>

Next == Index \/ Reset \/ Search \/ Answer \/ Info \/ Return

Spec == Init /\ [][Next]_vars

(***************************************************************************)
(* Reading a served call.                                                  *)
(***************************************************************************)
\* The positions of the calls of one name in a trace.
CallsNamed(tr, name) == {i \in 1..Len(tr) : tr[i].call = name}

\* A value that is None or an empty list.
EmptyOrAbsent(x) == x.t = "None" \/ (x.t = "list" /\ Len(x.v) = 0)

\* Some embedding request of the trace came back empty or absent.
EmbeddingCameBackEmpty(tr) ==
  \E i \in CallsNamed(tr, "embed_text") : EmptyOrAbsent(tr[i].result)

\* The vector search of the trace came back with no match.
SearchCameBackEmpty(tr) ==
  \E i \in CallsNamed(tr, "search_by_vector") : EmptyOrAbsent(tr[i].result)

\* Retrieval ended and produced no document.
NoDocumentsRetrieved(tr) == EmbeddingCameBackEmpty(tr) \/ SearchCameBackEmpty(tr)

\* The documents the vector search of the trace produced.
DocumentsRetrieved(tr) ==
  IF \E i \in CallsNamed(tr, "search_by_vector") : tr[i].result.t = "list"
  THEN (tr[CHOOSE i \in CallsNamed(tr, "search_by_vector") : TRUE]).result.v
  ELSE <<>>

Ended(op) == pc = "returned" /\ last.op = op
Returned(op) == Ended(op) /\ last.outcome = "returned"

(***************************************************************************)
(* C1: answer_rag_question returns (None, None, None) if and only if       *)
(* retrieval produced no documents; when retrieval produced a document the *)
(* returned full_prompt and chat_history are not None.                     *)
(***************************************************************************)
C1_NoAnswerIffNoDocuments ==
  Returned("answer") =>
    /\ (\A i \in 1..3 : IsNone(last.ret[i])) <=> NoDocumentsRetrieved(last.trace)
    /\ (\A i \in 1..3 : IsNone(last.ret[i])) <=> DocumentsRetrieved(last.trace) = <<>>
    /\ DocumentsRetrieved(last.trace) # <<>> =>
         ~IsNone(last.ret[2]) /\ ~IsNone(last.ret[3])

\* An answer call that retrieved documents and whose generation gave nothing.
C1_Witness ==
  /\ Returned("answer")
  /\ DocumentsRetrieved(last.trace) # <<>>
  /\ IsNone(last.ret[1])

(***************************************************************************)
(* C2: an answer_rag_question call whose retrieval yields no documents     *)
(* returns without a call to the template parser or the generation client. *)
(***************************************************************************)
C2_EarlyExitCallsNothing ==
  (Ended("answer") /\ NoDocumentsRetrieved(last.trace)) =>
    /\ last.outcome = "returned"
    /\ CallsNamed(last.trace, "template_parser.get") = {}
    /\ CallsNamed(last.trace, "construct_prompt") = {}
    /\ CallsNamed(last.trace, "generate_text") = {}

\* An answer call whose vector search found nothing.
C2_Witness == Ended("answer") /\ SearchCameBackEmpty(last.trace)

(***************************************************************************)
(* C3: in index_into_vector_db, if the embedding of any chunk of the batch *)
(* comes back empty or absent, the batch is aborted: insert_many is not    *)
(* issued and the collections are left as they were.                       *)
(***************************************************************************)
C3_EmbeddingFailureAbortsBatch ==
  [][ (pc = "idle" /\ last'.op = "index"
       /\ EmbeddingCameBackEmpty(last'.trace)) =>
        /\ CallsNamed(last'.trace, "insert_many") = {}
        /\ vectordb' = vectordb ]_vars

(***************************************************************************)
(* Reading the store around a served index call.                           *)
(***************************************************************************)
\* The collection of the project of the call served last, after the call and
\* as the call found it.
CollectionAfter == vectordb[create_collection_name(last.args.project.project_id)]
CollectionBefore ==
  last.before[create_collection_name(last.args.project.project_id)]

RecordIds(records) == {r.id : r \in records}
IdsOf(chunks_ids) == {chunks_ids[i] : i \in 1..Len(chunks_ids)}

\* The last position at which an identifier occurs in chunks_ids.
LastPosition(chunks_ids, id) ==
  CHOOSE i \in 1..Len(chunks_ids) :
    /\ chunks_ids[i] = id
    /\ \A j \in 1..Len(chunks_ids) : chunks_ids[j] = id => j <= i

\* The record of chunk i of an index call: its identifier with its own text,
\* metadata and document-mode vector.
RecordOfChunk(chunks, chunks_ids, i) ==
  [id |-> chunks_ids[i], text |-> chunks[i].chunk_text,
   metadata |-> chunks[i].chunk_metadata,
   vector |-> Embedding(chunks[i].chunk_text, DOCUMENT)]

\* The records an index call writes: one per identifier of chunks_ids.
RecordsOfCall(chunks, chunks_ids) ==
  { RecordOfChunk(chunks, chunks_ids, LastPosition(chunks_ids, id)) :
      id \in IdsOf(chunks_ids) }

(***************************************************************************)
(* C4: after index_into_vector_db with do_reset=True has returned, the     *)
(* project's collection holds exactly the records keyed by the chunks_ids  *)
(* of this call; no record of an earlier call remains.                     *)
(***************************************************************************)
C4_ResetLeavesOnlyNewRecords ==
  (Returned("index") /\ last.args.do_reset) =>
    /\ CollectionAfter.exists
    /\ RecordIds(CollectionAfter.records) = IdsOf(last.args.chunks_ids)
    /\ CollectionAfter.records =
         RecordsOfCall(last.args.chunks, last.args.chunks_ids)

\* A reset index call on a collection that held a record whose identifier is
\* not among the chunks_ids of the call.
C4_Witness ==
  /\ Returned("index") /\ last.args.do_reset
  /\ \E r \in CollectionBefore.records : r.id \notin IdsOf(last.args.chunks_ids)
  /\ Len(last.args.chunks_ids) > 0

(***************************************************************************)
(* C5: indexing is idempotent per record id.  With do_reset=False, a       *)
(* second index call with the same chunks and chunks_ids that returns      *)
(* leaves the store as the first left it; every identifier of the call has *)
(* exactly one record, holding that chunk's vector, text and metadata, and *)
(* the records of other identifiers are untouched.                         *)
(***************************************************************************)
C5_IndexIdempotentPerId ==
  (Returned("index") /\ ~last.args.do_reset) =>
    /\ \A again \in index_into_vector_db(vectordb, last.args.project,
                                         last.args.chunks, last.args.chunks_ids,
                                         FALSE) :
         again.outcome = "returned" => again.db = vectordb
    /\ \A id \in IdsOf(last.args.chunks_ids) :
         {r \in CollectionAfter.records : r.id = id} =
           {RecordOfChunk(last.args.chunks, last.args.chunks_ids,
                          LastPosition(last.args.chunks_ids, id))}
    /\ {r \in CollectionAfter.records : r.id \notin IdsOf(last.args.chunks_ids)}
         = {r \in CollectionBefore.records :
              r.id \notin IdsOf(last.args.chunks_ids)}

\* An index call without reset that found a record of one of its identifiers
\* with another text, next to a record of another identifier.
C5_Witness ==
  /\ Returned("index") /\ ~last.args.do_reset
  /\ \E r \in CollectionBefore.records :
       /\ r.id \in IdsOf(last.args.chunks_ids)
       /\ r \notin CollectionAfter.records
  /\ \E r \in CollectionBefore.records : r.id \notin IdsOf(last.args.chunks_ids)

(***************************************************************************)
(* C6: in search_vector_db_collection, if embedding the query returns an   *)
(* empty or missing vector, the call returns the 'no result' value (False) *)
(* at once and search_by_vector is never invoked.                          *)
(***************************************************************************)
C6_FailedQueryEmbeddingSkipsSearch ==
  /\ (Ended("search") /\ EmbeddingCameBackEmpty(last.trace)) =>
       /\ last.outcome = "returned"
       /\ last.ret = PyBool(FALSE)
       /\ Len(last.trace) = 1
  /\ ((Ended("search") \/ Ended("answer"))
      /\ EmbeddingCameBackEmpty(last.trace)) =>
       CallsNamed(last.trace, "search_by_vector") = {}

\* A search whose query embedding came back as an empty vector, on a project
\* that has records to find.
C6_Witness ==
  /\ Ended("search")
  /\ \E i \in CallsNamed(last.trace, "embed_text") :
       last.trace[i].result = PyList(<<>>)
  /\ CollectionBefore.records # {}

(***************************************************************************)
(* C7: search_vector_db_collection, and answer_rag_question through it,    *)
(* never creates, resets or writes a collection: the collections and their *)
(* records are the same after the call as before; a search on a project    *)
(* without a collection gives 'no result'.                                 *)
(***************************************************************************)
C7_SearchLeavesStoreAlone ==
  (Ended("search") \/ Ended("answer")) =>
    /\ vectordb = last.before
    /\ \A i \in 1..Len(last.trace) :
         last.trace[i].call \notin
           {"create_collection", "insert_many", "delete_collection"}
    /\ (~CollectionBefore.exists /\ last.outcome = "returned") =>
         IF last.op = "search"
         THEN last.ret = PyBool(FALSE)
         ELSE \A i \in 1..3 : IsNone(last.ret[i])

\* A search that reached the store for a project without a collection, while
\* another project has one.
C7_Witness ==
  /\ Returned("search")
  /\ ~CollectionBefore.exists
  /\ CallsNamed(last.trace, "search_by_vector") # {}
  /\ \E name \in CollectionNames : last.before[name].exists

(***************************************************************************)
(* C8: for every limit L, a search_vector_db_collection call that returns  *)
(* documents returns at most L of them, ordered by non-increasing score:   *)
(* the controller passes limit through to the store and returns the        *)
(* store's list as it is.                                                  *)
(***************************************************************************)
C8_AtMostLimitByScore ==
  (Returned("search") /\ last.ret.t = "list") =>
    /\ Len(last.ret.v) <= last.args.limit
    /\ \A i \in 1..Len(last.ret.v) : \A j \in 1..Len(last.ret.v) :
         i < j => last.ret.v[i].score >= last.ret.v[j].score
    /\ \A i \in CallsNamed(last.trace, "search_by_vector") :
         /\ last.trace[i].args[3] = last.args.limit
         /\ last.trace[i].result = last.ret

\* A search with a limit below the number of records of the collection, whose
\* records score differently for the query.
C8_Witness ==
  /\ Returned("search") /\ last.ret.t = "list"
  /\ Len(last.ret.v) = last.args.limit
  /\ Cardinality(CollectionBefore.records) > last.args.limit
  /\ \E r \in CollectionBefore.records :
       Score(Embedding(last.args.text, QUERY), r.vector) < last.ret.v[1].score

(***************************************************************************)
(* C9: every embedding request of index_into_vector_db uses the document   *)
(* mode, and every embedding request of search_vector_db_collection, made  *)
(* directly or through answer_rag_question, uses the query mode.           *)
(***************************************************************************)
C9_EmbeddingModes ==
  /\ Ended("index") =>
       /\ \A i \in CallsNamed(last.trace, "embed_text") :
            /\ last.trace[i].args[2] = DOCUMENT
            /\ last.trace[i].args[1] = last.args.chunks[i].chunk_text
       /\ \A r \in CollectionAfter.records \ CollectionBefore.records :
            r.vector = Embedding(r.text, DOCUMENT)
  /\ (Ended("search") \/ Ended("answer")) =>
       /\ Cardinality(CallsNamed(last.trace, "embed_text")) = 1
       /\ \A i \in CallsNamed(last.trace, "embed_text") :
            last.trace[i].args = <<last.args.text, QUERY>>
       /\ \A i \in CallsNamed(last.trace, "search_by_vector") :
            last.trace[i].args[2] = PyList(Embedding(last.args.text, QUERY))

\* An index call that embedded two chunks and wrote a record.
C9_Witness ==
  /\ Returned("index")
  /\ Cardinality(CallsNamed(last.trace, "embed_text")) = 2
  /\ CollectionAfter.records # CollectionBefore.records

\* The rendered fragments of a prompt text, in order (newlines left out).
Fragments(text) ==
  LET IsFragment(token) == token.key # "\n"
  IN  SelectSeq(text.v, IsFragment)

(***************************************************************************)
(* C10: for n >= 1 retrieved documents the full_prompt consists of exactly *)
(* n document fragments, the i-th rendered with doc_num = i and the text   *)
(* of the i-th retrieved document, followed by exactly one footer fragment *)
(* rendered with the query text.                                           *)
(***************************************************************************)
C10_PromptFragments ==
  (Returned("answer") /\ DocumentsRetrieved(last.trace) # <<>>) =>
    LET docs == DocumentsRetrieved(last.trace)
        n == Len(docs)
        full_prompt == last.ret[2]
    IN  /\ full_prompt.t = "str"
        /\ Fragments(full_prompt) =
             [i \in 1..(n + 1) |->
                IF i <= n
                THEN Token("document_prompt", <<i, docs[i].text>>)
                ELSE Token("footer_prompt", <<last.args.text>>)]

\* An answer over two retrieved documents of different texts.
C10_Witness ==
  /\ Returned("answer")
  /\ Len(DocumentsRetrieved(last.trace)) = 2
  /\ DocumentsRetrieved(last.trace)[1].text # DocumentsRetrieved(last.trace)[2].text

\* The text expected of a prompt over the retrieved documents docs and a
\* query, with the document fragments separated by between and the last
\* document fragment and the footer by beforeFooter.
RECURSIVE ExpectedDocuments(_, _, _)
ExpectedDocuments(docs, n, between) ==
  IF n = 0 THEN <<>>
  ELSE IF n = 1 THEN <<Token("document_prompt", <<1, docs[1].text>>)>>
  ELSE ExpectedDocuments(docs, n - 1, between) \o between
       \o <<Token("document_prompt", <<n, docs[n].text>>)>>

ExpectedPrompt(docs, query, between, beforeFooter) ==
  ExpectedDocuments(docs, Len(docs), between) \o beforeFooter
  \o <<Token("footer_prompt", <<query>>)>>

(***************************************************************************)
(* C11 (as claimed): in the full_prompt every pair of adjacent fragments,  *)
(* document-document as well as last document-footer, is separated by a   *)
(* blank line.                                                             *)
(***************************************************************************)
C11_BlankLineBetweenAllFragments ==
  (Returned("answer") /\ DocumentsRetrieved(last.trace) # <<>>) =>
    last.ret[2].v = ExpectedPrompt(DocumentsRetrieved(last.trace),
                                   last.args.text, <<NL, NL>>, <<NL, NL>>)

(***************************************************************************)
(* C11 (amended): in the full_prompt adjacent document fragments are       *)
(* separated by a single newline, and the last document fragment and the   *)
(* footer fragment by a blank line (two newlines).                         *)
(***************************************************************************)
C11_NewlineThenBlankLine ==
  (Returned("answer") /\ DocumentsRetrieved(last.trace) # <<>>) =>
    last.ret[2].v = ExpectedPrompt(DocumentsRetrieved(last.trace),
                                   last.args.text, <<NL>>, <<NL, NL>>)

\* An answer over two retrieved documents: one document-document boundary
\* and the document-footer boundary.
C11_Witness ==
  /\ Returned("answer")
  /\ Len(DocumentsRetrieved(last.trace)) = 2
  /\ Len(last.ret[2].v) = 6

(***************************************************************************)
(* C12: every answer_rag_question call that retrieved documents builds a   *)
(* chat history of exactly one message, of system role, built from the     *)
(* system_prompt fragment; whatever calls came before, the history holds   *)
(* no message of an earlier call.                                          *)
(***************************************************************************)
C12_OneSystemMessage ==
  (Ended("answer") /\ CallsNamed(last.trace, "generate_text") # {}) =>
    LET history ==
          PyList(<<[role |-> "system",
                    content |-> PyStr(<<Token("system_prompt", <<>>)>>)]>>)
    IN  /\ Cardinality(CallsNamed(last.trace, "construct_prompt")) = 1
        /\ \A i \in CallsNamed(last.trace, "generate_text") :
             last.trace[i].args[2] = history
        /\ last.outcome = "returned" => last.ret[3] = history

\* An answer call that returned a history, on a store that an earlier call
\* has filled.
C12_Witness ==
  /\ Returned("answer")
  /\ ~IsNone(last.ret[3])
  /\ Len(last.ret[3].v) = 1

(***************************************************************************)
(* C13: when retrieval is non-empty, the full_prompt and chat_history that *)
(* answer_rag_question returns are the prompt and chat history passed to   *)
(* generate_text, and the returned answer is generate_text's result.       *)
(***************************************************************************)
C13_ReturnsWhatWasSent ==
  (Returned("answer") /\ DocumentsRetrieved(last.trace) # <<>>) =>
    /\ Cardinality(CallsNamed(last.trace, "generate_text")) = 1
    /\ \A i \in CallsNamed(last.trace, "generate_text") :
         /\ last.trace[i].args = <<last.ret[2], last.ret[3]>>
         /\ last.trace[i].result = last.ret[1]

\* An answer call that returned a generated text.
C13_Witness ==
  /\ Returned("answer")
  /\ DocumentsRetrieved(last.trace) # <<>>
  /\ ~IsNone(last.ret[1])

\* The step of the pipeline a collaborator call belongs to: 1 the query
\* embedding, 2 the vector search, 3 assembly, 4 generation.
Phase(call) ==
  CASE call = "embed_text" -> 1
    [] call = "search_by_vector" -> 2
    [] call \in {"template_parser.get", "construct_prompt"} -> 3
    [] call = "generate_text" -> 4
    [] OTHER -> 0

(***************************************************************************)
(* C14: each answer_rag_question call follows START -> RETRIEVE ->         *)
(* (EMPTY -> DONE) or (NONEMPTY -> ASSEMBLE -> GENERATE -> DONE): the      *)
(* query embedding, the vector search and the generation call are each     *)
(* made at most once, in that order, and no step is entered again after a  *)
(* later one has begun.                                                    *)
(***************************************************************************)
C14_LinearPipeline ==
  Ended("answer") =>
    LET tr == last.trace
    IN  /\ \A i \in 1..Len(tr) : Phase(tr[i].call) \in 1..4
        /\ \A i \in 1..Len(tr) : \A j \in 1..Len(tr) :
             i < j => Phase(tr[i].call) <= Phase(tr[j].call)
        /\ \A name \in {"embed_text", "search_by_vector", "generate_text"} :
             Cardinality(CallsNamed(tr, name)) <= 1
        /\ Len(tr) >= 1 /\ tr[1].call = "embed_text"
        /\ \A i \in 2..Len(tr) : Phase(tr[i].call) <= Phase(tr[i - 1].call) + 1
        /\ NoDocumentsRetrieved(tr) => Len(tr) <= 2
        /\ (last.outcome = "returned" /\ ~NoDocumentsRetrieved(tr)) =>
             tr[Len(tr)].call = "generate_text"

\* An answer call that went through every step.
C14_Witness ==
  /\ Returned("answer")
  /\ CallsNamed(last.trace, "generate_text") # {}
  /\ Len(DocumentsRetrieved(last.trace)) = 2

(***************************************************************************)
(* C15: if the generation backend fails during answer_rag_question, the    *)
(* failure reaches the caller: generation is not tried again, no other     *)
(* answer is put in its place, and no triple is returned.                  *)
(***************************************************************************)
C15_GenerationFailurePropagates ==
  (Ended("answer")
   /\ \E i \in CallsNamed(last.trace, "generate_text") :
        last.trace[i].result.t = "raise") =>
    /\ last.outcome = "raised"
    /\ IsNone(last.ret)
    /\ CallsNamed(last.trace, "generate_text") = {Len(last.trace)}

\* An answer call whose generate_text call raised.
C15_Witness ==
  /\ Ended("answer")
  /\ \E i \in CallsNamed(last.trace, "generate_text") :
       last.trace[i].result.t = "raise"

\* The store calls of a trace that came back with a failure.
StoreCallsFailed(tr) ==
  {i \in CallsNamed(tr, "create_collection") \cup CallsNamed(tr, "insert_many") :
     tr[i].result.t = "raise"}

(***************************************************************************)
(* C16: index_into_vector_db reports success or failure for the whole      *)
(* call: whenever the vector store fails to create the collection or       *)
(* rejects the insert_many write, the caller observes a failure, never a   *)
(* success result.                                                         *)
(***************************************************************************)
C16_StoreFailureIsFailure ==
  (Ended("index") /\ StoreCallsFailed(last.trace) # {}) =>
    /\ last.outcome = "raised"
    /\ last.ret # PyBool(TRUE)

\* An index call whose insert_many was rejected after a record was written.
C16_Witness ==
  /\ Ended("index")
  /\ \E i \in CallsNamed(last.trace, "insert_many") :
       last.trace[i].result.t = "raise"
  /\ CollectionAfter.records # CollectionBefore.records

(***************************************************************************)
(* C17: when the dimension of the embedding backend differs from that of   *)
(* the project's existing collection, index_into_vector_db with            *)
(* do_reset = False ends in a failure during that call, with no record     *)
(* written, instead of succeeding and leaving the mismatch to search time. *)
(***************************************************************************)
C17_DimensionMismatchSurfaces ==
  (/\ Ended("index")
   /\ ~last.args.do_reset
   /\ CollectionBefore.exists
   /\ CollectionBefore.dim # embedding_size) =>
    /\ last.outcome = "raised"
    /\ CollectionAfter = CollectionBefore

(***************************************************************************)
(* Two calls on one project, running side by side.  The controller's       *)
(* methods take no lock and keep no state between their store calls, so    *)
(* two callers (worker threads or processes sharing the store) interleave  *)
(* at the store calls.  Each caller makes one call: index_into_vector_db   *)
(* or reset_vector_db_collection.  Here pc and last are kept per caller.   *)
(***************************************************************************)
Callers == {1, 2}
ConcProject == [project_id |-> <<"p", "1">>]
ConcInputs == SeqsUpTo(IdentifiedChunks, MaxConcChunks)

\* What is kept of a caller's call: the method and its arguments, the vectors
\* of the embedding loop, how the call ended, the turn in which it finished
\* its create or delete step (0: not yet), whether the collection was deleted
\* after that step, and whether its insert_many was issued after such a
\* deletion.
NoConcCall ==
  [op |-> "none", args |-> NoArgs, vectors |-> <<>>, outcome |-> "none",
   turn |-> 0, deleted_since |-> FALSE, orphaned |-> FALSE]

InitConc ==
  /\ vectordb = [name \in CollectionNames |-> NoCollection]
  /\ mongo = EmptyMongo
  /\ pc = [p \in Callers |-> "idle"]
  /\ last = [p \in Callers |-> NoConcCall]

\* The turn of the next create or delete step.
NextTurn == 1 + Cardinality({q \in Callers : last[q].turn > 0})

\* The calls kept, after caller p's call became `mine` and, if `deleted`, the
\* project's collection was deleted under the callers that stand between
\* their create_collection and their insert_many.
Kept(p, mine, deleted) ==
  [q \in Callers |->
     IF q = p THEN mine
     ELSE IF deleted /\ pc[q] = "insert"
     THEN [last[q] EXCEPT !.deleted_since = TRUE]
     ELSE last[q]]

\* index_into_vector_db is entered with its arguments.
IndexStart(p) ==
  /\ pc[p] = "idle"
  /\ UNCHANGED mongo
  /\ \E items \in ConcInputs, do_reset \in BOOLEAN :
       last' = Kept(p, [NoConcCall EXCEPT
                          !.op = "index",
                          !.args = [NoArgs EXCEPT
                             !.project = ConcProject,
                             !.chunks = [i \in 1..Len(items) |-> items[i][2]],
                             !.chunks_ids = [i \in 1..Len(items) |-> items[i][1]],
                             !.do_reset = do_reset]], FALSE)
  /\ pc' = [pc EXCEPT ![p] = "embed"]
  /\ UNCHANGED vectordb

\* The embedding loop: no store call is made in it.
IndexEmbed(p) ==
  /\ pc[p] = "embed"
  /\ UNCHANGED mongo
  /\ \E e \in EmbedRuns(Len(last[p].args.chunks)) :
       LET texts == [i \in 1..Len(last[p].args.chunks) |->
                       last[p].args.chunks[i].chunk_text]
       IN  IF Len(e) > 0 /\ e[Len(e)] = "raise"
           THEN /\ last' = Kept(p, [last[p] EXCEPT !.outcome = "raised"], FALSE)
                /\ pc' = [pc EXCEPT ![p] = "done"]
           ELSE /\ last' = Kept(p, [last[p] EXCEPT !.vectors =
                                      [i \in 1..Len(texts) |->
                                         embed_text(texts[i], IndexDocumentType,
                                                    e[i])]], FALSE)
                /\ pc' = [pc EXCEPT ![p] = "create"]
  /\ UNCHANGED vectordb

\* The create_collection call: it raises, or the store creates the collection
\* (deleting the one there first when do_reset is set).
IndexCreate(p) ==
  /\ pc[p] = "create"
  /\ UNCHANGED mongo
  /\ LET collection_name == create_collection_name(last[p].args.project.project_id)
         ca == CreateCollectionArgs(collection_name, last[p].args.do_reset)
     IN  \/ /\ vectordb' = create_collection(vectordb, ca[1], ca[2], ca[3])
            /\ last' = Kept(p, [last[p] EXCEPT !.turn = NextTurn],
                            ca[3] /\ vectordb[ca[1]].exists)
            /\ pc' = [pc EXCEPT ![p] = "insert"]
         \/ /\ last' = Kept(p, [last[p] EXCEPT !.outcome = "raised"], FALSE)
            /\ pc' = [pc EXCEPT ![p] = "done"]
            /\ UNCHANGED vectordb

\* The insert_many call, then `return True`.
IndexInsert(p) ==
  /\ pc[p] = "insert"
  /\ UNCHANGED mongo
  /\ LET collection_name == create_collection_name(last[p].args.project.project_id)
         texts == [i \in 1..Len(last[p].args.chunks) |->
                     last[p].args.chunks[i].chunk_text]
         metadata == [i \in 1..Len(last[p].args.chunks) |->
                        last[p].args.chunks[i].chunk_metadata]
         ia == InsertManyArgs(collection_name, texts, metadata, last[p].vectors,
                              last[p].args.chunks_ids)
     IN  \E w \in insert_many(vectordb, ia[1], ia[2], ia[3], ia[4], ia[5]) :
           /\ vectordb' = w.db
           /\ last' = Kept(p, [last[p] EXCEPT
                                 !.outcome = IF w.raised THEN "raised"
                                             ELSE "returned",
                                 !.orphaned = last[p].deleted_since], FALSE)
  /\ pc' = [pc EXCEPT ![p] = "done"]

\* reset_vector_db_collection is entered with its argument.
ResetStart(p) ==
  /\ pc[p] = "idle"
  /\ UNCHANGED mongo
  /\ last' = Kept(p, [NoConcCall EXCEPT
                        !.op = "reset",
                        !.args = [NoArgs EXCEPT !.project = ConcProject]], FALSE)
  /\ pc' = [pc EXCEPT ![p] = "delete"]
  /\ UNCHANGED vectordb

\* The delete_collection call, whose value is returned.
ResetDelete(p) ==
  /\ pc[p] = "delete"
  /\ UNCHANGED mongo
  /\ LET collection_name == create_collection_name(last[p].args.project.project_id)
     IN  \/ /\ vectordb' = delete_collection(vectordb, collection_name)
            /\ last' = Kept(p, [last[p] EXCEPT !.outcome = "returned",
                                               !.turn = NextTurn],
                            vectordb[collection_name].exists)
         \/ /\ last' = Kept(p, [last[p] EXCEPT !.outcome = "raised"], FALSE)
            /\ UNCHANGED vectordb
  /\ pc' = [pc EXCEPT ![p] = "done"]

NextConc ==
  \E p \in Callers :
    \/ IndexStart(p)
    \/ IndexEmbed(p)
    \/ IndexCreate(p)
    \/ IndexInsert(p)
    \/ ResetStart(p)
    \/ ResetDelete(p)

SpecConc == InitConc /\ [][NextConc]_vars

\* The callers whose create or delete step came last.
LastToCreate ==
  {p \in Callers : last[p].turn > 0 /\ \A q \in Callers : last[q].turn <= last[p].turn}

(***************************************************************************)
(* C18: create and reset of a project's collection are serialized against  *)
(* concurrent indexing of the project: however two index_into_vector_db    *)
(* calls (one with do_reset = True), or an index call and a                *)
(* reset_vector_db_collection call, interleave, no insert_many is issued   *)
(* against a collection that was deleted after the call's own              *)
(* create_collection, and once both calls have returned, the records       *)
(* written by the call whose create or reset step came last are all in     *)
(* the collection.                                                         *)
(***************************************************************************)
C18_ResetSerializedWithIndexing ==
  /\ \A p \in Callers : ~last[p].orphaned
  /\ (\A p \in Callers : pc[p] = "done" /\ last[p].outcome = "returned") =>
       \A p \in LastToCreate :
         last[p].op = "index" =>
           IdsOf(last[p].args.chunks_ids)
             \subseteq RecordIds(vectordb[create_collection_name(
                                   last[p].args.project.project_id)].records)

\* The calls a trace makes to the vector store.
StoreCalls(tr) ==
  {i \in 1..Len(tr) :
     tr[i].call \in {"create_collection", "insert_many", "search_by_vector",
                     "delete_collection", "get_collection_info"}}

\* Identifiers Project accepts and identifiers it refuses.
IdentifierSamples ==
  {s \in SeqsUpTo(AlnumChars \cup Whitespace, 2) : Len(s) >= 1}

(***************************************************************************)
(* C19: the collection name is a function of the project identifier alone: *)
(* index, search, answer, reset and collection-info calls for a project    *)
(* address the one name of that project and change the store nowhere else; *)
(* two different alphanumeric identifiers never have the same name, so a   *)
(* project has at most one live collection.                                *)
(***************************************************************************)
C19_OneNamePerProject ==
  /\ \A p, q \in {s \in IdentifierSamples : IsAlnum(s)} \cup ProjectIds :
       p # q => create_collection_name(p) # create_collection_name(q)
  /\ pc = "returned" =>
       LET name == <<"collection_">> \o last.args.project.project_id
       IN  /\ \A i \in StoreCalls(last.trace) : last.trace[i].args[1] = name
           /\ \A other \in DOMAIN vectordb :
                other # name => vectordb[other] = last.before[other]
           /\ name \in DOMAIN vectordb

\* A collection-info call on a live collection, while the other project has
\* a live collection of its own.
C19_Witness ==
  /\ Returned("info")
  /\ last.ret.t = "dict"
  /\ \A name \in DOMAIN vectordb : vectordb[name].exists

(***************************************************************************)
(* C20: within one index_into_vector_db call the embedding requests are    *)
(* made one per chunk, in chunk order, and all of them have completed      *)
(* before create_collection is called; create_collection is called before  *)
(* insert_many; if an embedding request raises, the call has not touched   *)
(* the vector store, even with do_reset = True.                            *)
(***************************************************************************)
C20_EmbedThenCreateThenInsert ==
  Ended("index") =>
    LET tr == last.trace
        chunks == last.args.chunks
        n == Len(chunks)
        embeds == CallsNamed(tr, "embed_text")
        creates == CallsNamed(tr, "create_collection")
        inserts == CallsNamed(tr, "insert_many")
    IN  /\ \E k \in 0..n : embeds = 1..k
        /\ \A i \in embeds : tr[i].args[1] = chunks[i].chunk_text
        /\ creates \subseteq {n + 1}
        /\ creates # {} =>
             embeds = 1..n /\ \A i \in embeds : tr[i].result.t # "raise"
        /\ inserts \subseteq {n + 2}
        /\ inserts # {} => creates = {n + 1}
        /\ (\E i \in embeds : tr[i].result.t = "raise") =>
             /\ creates = {} /\ inserts = {}
             /\ vectordb = last.before
             /\ last.outcome = "raised"

\* A resetting index call on a collection that holds records, whose second
\* embedding request raised.
C20_Witness ==
  /\ Ended("index")
  /\ last.args.do_reset
  /\ CollectionBefore.records # {}
  /\ Len(last.trace) = 2
  /\ last.trace[2].result.t = "raise"

(***************************************************************************)
(* C21: in the one insert_many call of index_into_vector_db, position i of *)
(* texts, metadata and vectors comes from chunks[i] (vectors[i] is what    *)
(* embed_text gave for chunks[i].chunk_text) and record_ids is chunks_ids  *)
(* unchanged; so after a call that returned, every identifier of           *)
(* chunks_ids is stored with the text, metadata and vector of its own      *)
(* chunk.                                                                  *)
(***************************************************************************)
C21_PositionsBelongToChunks ==
  Ended("index") =>
    LET tr == last.trace
        chunks == last.args.chunks
        n == Len(chunks)
    IN  /\ Cardinality(CallsNamed(tr, "insert_many")) <= 1
        /\ \A c \in CallsNamed(tr, "insert_many") :
             /\ \A a \in 2..5 : Len(tr[c].args[a]) = n
             /\ tr[c].args[5] = last.args.chunks_ids
             /\ \A i \in 1..n :
                  /\ tr[c].args[2][i] = chunks[i].chunk_text
                  /\ tr[c].args[3][i] = chunks[i].chunk_metadata
                  /\ tr[i].call = "embed_text"
                  /\ tr[i].args[1] = chunks[i].chunk_text
                  /\ tr[c].args[4][i] = tr[i].result
                  /\ tr[i].result.t = "list" /\ tr[i].result.v # <<>> =>
                       tr[c].args[4][i].v
                         = Embedding(chunks[i].chunk_text, "document")
        /\ last.outcome = "returned" =>
             \A id \in IdsOf(last.args.chunks_ids) :
               RecordOfChunk(chunks, last.args.chunks_ids,
                             LastPosition(last.args.chunks_ids, id))
                 \in CollectionAfter.records

\* An index call that returned after writing two chunks of different texts
\* under two identifiers.
C21_Witness ==
  /\ Returned("index")
  /\ Len(last.args.chunks) = 2
  /\ last.args.chunks_ids[1] # last.args.chunks_ids[2]
  /\ last.args.chunks[1].chunk_text # last.args.chunks[2].chunk_text
  /\ Cardinality(CollectionAfter.records) >= 2

(***************************************************************************)
(* ChunkModel served by one caller: a call is served whole, then its       *)
(* result is handed to the caller.                                         *)
(***************************************************************************)
\* Project object ids, and the chunks a caller may hand over.
ProjectOids == {1, 2}
ChunkSamples ==
  { NewDataChunk("the cat sat", 1, 1), NewDataChunk("the dog ran", 2, 1),
    NewDataChunk("the cat sat", 1, 2) }

\* A ChunkModel call served: the chunk collection takes the run's effect.
ServedChunks(op, args, r) ==
  /\ mongo' = [mongo EXCEPT !.chunks = r.db]
  /\ last' = [op |-> op, args |-> args, before |-> mongo.chunks,
              outcome |-> r.outcome, ret |-> r.ret, trace |-> r.trace]
  /\ pc' = "returned"
  /\ UNCHANGED vectordb

InitChunks ==
  /\ vectordb = [name \in CollectionNames |-> NoCollection]
  /\ mongo = EmptyMongo
  /\ pc = "idle"
  /\ last = NoCall

InsertManyChunks ==
  /\ pc = "idle"
  /\ \E chunks \in SeqsUpTo(ChunkSamples, MaxBatchInput),
        batch_size \in 1..MaxBatchSize :
       /\ Len(mongo.chunks) + Len(chunks) <= MaxStoredChunks
       /\ \E r \in insert_many_chunks(mongo.chunks, chunks, batch_size) :
            ServedChunks("insert_many_chunks",
                         [chunks |-> chunks, batch_size |-> batch_size], r)

GetProjectChunks ==
  /\ pc = "idle"
  /\ \E project_id \in ProjectOids, page_no \in 1..MaxPageNo,
        page_size \in 0..MaxPageSize :
       \E r \in get_poject_chunks(mongo.chunks, project_id, page_no, page_size) :
         ServedChunks("get_poject_chunks",
                      [project_id |-> project_id, page_no |-> page_no,
                       page_size |-> page_size], r)

NextChunks == InsertManyChunks \/ GetProjectChunks \/ Return

SpecChunks == InitChunks /\ [][NextChunks]_vars

\* ceil(n / b), b >= 1
Ceil(n, b) == (n + b - 1) \div b

\* The documents of the first m chunks of the call served last, as the
\* collection of before the call holds them once written.
WrittenUpTo(m) ==
  InsertPrefix(last.before,
               [k \in 1..Len(last.args.chunks) |-> ChunkDict(last.args.chunks[k])],
               m)

\* The bulk writes of the call served last are the batches of its chunks: the
\* j-th write holds the chunks from offset (j - 1) * batch_size on, at most
\* batch_size of them, in input order; a write that raised is the last one.
BulkWritesAreBatches ==
  LET tr == last.trace
      chunks == last.args.chunks
      b == last.args.batch_size
  IN  /\ Len(tr) <= Ceil(Len(chunks), b)
      /\ \A j \in 1..Len(tr) :
           /\ tr[j].call = "bulk_write"
           /\ Len(tr[j].args) = Min(b, Len(chunks) - (j - 1) * b)
           /\ \A k \in 1..Len(tr[j].args) :
                tr[j].args[k] = ChunkDict(chunks[(j - 1) * b + k])
           /\ tr[j].result.t = "raise" => j = Len(tr)
      /\ last.outcome = "returned" =>
           /\ Len(tr) = Ceil(Len(chunks), b)
           /\ last.ret = Len(chunks)
           /\ mongo.chunks = WrittenUpTo(Len(chunks))
      /\ last.outcome = "raised" =>
           /\ Len(tr) >= 1
           /\ tr[Len(tr)].result.t = "raise"

(***************************************************************************)
(* C22 (as claimed): insert_many_chunks with n chunks and batch_size       *)
(* b >= 1 issues ceil(n / b) bulk writes of at most b chunks each, which   *)
(* hold every chunk once in input order, and returns n; if the bulk write  *)
(* of batch j fails, exactly the chunks of the batches before j have been  *)
(* written.                                                                *)
(***************************************************************************)
C22_FailedBatchWritesNothing ==
  Ended("insert_many_chunks") =>
    /\ BulkWritesAreBatches
    /\ last.outcome = "raised" =>
         mongo.chunks = WrittenUpTo((Len(last.trace) - 1) * last.args.batch_size)

(***************************************************************************)
(* C22 (amended): as above, but if the bulk write of batch j fails, the    *)
(* chunks of the batches before j have been written, followed by the       *)
(* chunks of batch j that precede the failing one (possibly none), and no  *)
(* chunk of a later batch.                                                 *)
(***************************************************************************)
C22_FailedBatchWritesPrefix ==
  Ended("insert_many_chunks") =>
    /\ BulkWritesAreBatches
    /\ last.outcome = "raised" =>
         LET j == Len(last.trace)
             b == last.args.batch_size
         IN  \E m \in ((j - 1) * b)..(Min(j * b, Len(last.args.chunks)) - 1) :
               mongo.chunks = WrittenUpTo(m)

\* A call of three chunks in batches of two whose second bulk write failed.
C22_Witness ==
  /\ Ended("insert_many_chunks")
  /\ last.outcome = "raised"
  /\ Len(last.args.chunks) = 3 /\ last.args.batch_size = 2
  /\ Len(last.trace) = 2
  /\ Len(mongo.chunks) = Len(last.before) + 2

\* The pages of a project read one after the other from page_no on, until a
\* page comes back empty.
RECURSIVE ReadPages(_, _, _, _)
ReadPages(coll, project_id, page_no, page_size) ==
  LET page == (CHOOSE r \in get_poject_chunks(coll, project_id, page_no, page_size) :
                 r.outcome = "returned").ret.v
  IN  IF page = <<>> THEN <<>>
      ELSE page \o ReadPages(coll, project_id, page_no + 1, page_size)

(***************************************************************************)
(* C24: with the stored chunks unchanged, get_poject_chunks with           *)
(* page_size >= 1 returns for page p the project's records at offsets      *)
(* (p - 1) * page_size to p * page_size - 1, at most page_size of them;    *)
(* reading pages 1, 2, 3, ... until an empty page yields every chunk of    *)
(* the project exactly once and no chunk of another project.               *)
(***************************************************************************)
C24_PagesCoverProjectOnce ==
  (Returned("get_poject_chunks") /\ last.args.page_size >= 1) =>
    LET pid == last.args.project_id
        ps == last.args.page_size
        first == (last.args.page_no - 1) * ps
        mine == {i \in 1..Len(mongo.chunks) :
                   mongo.chunks[i].chunk_project_id = pid}
        \* position in the collection of the project's k-th document
        Nth(k) == CHOOSE i \in mine : Cardinality({h \in mine : h <= i}) = k
        page == last.ret.v
        read == ReadPages(mongo.chunks, pid, 1, ps)
    IN  /\ Len(page) <= ps
        /\ Len(page) = IF Cardinality(mine) <= first THEN 0
                       ELSE Min(ps, Cardinality(mine) - first)
        /\ \A k \in 1..Len(page) :
             page[k] = DataChunkOf(mongo.chunks[Nth(first + k)])
        /\ \A i \in mine :
             Cardinality({k \in 1..Len(read) : read[k].id = mongo.chunks[i].oid}) = 1
        /\ \A k \in 1..Len(read) : read[k].chunk_project_id = pid
        /\ Len(read) = Cardinality(mine)

\* The second page of a project with three chunks, read next to a chunk of
\* another project.
C24_Witness ==
  /\ Returned("get_poject_chunks")
  /\ last.args.page_no = 2 /\ last.args.page_size = 2
  /\ Len(last.ret.v) = 1
  /\ \E i \in 1..Len(mongo.chunks) :
       mongo.chunks[i].chunk_project_id # last.args.project_id

(***************************************************************************)
(* Concurrent get_project_or_create_one calls.  The method awaits find_one *)
(* and, if nothing was found, insert_one; other calls run between the two  *)
(* awaits.  Each caller makes one call; pc and last are kept per caller.   *)
(***************************************************************************)
ProjectCallers == {1, 2, 3}

\* What is kept of a caller's call: its argument, what find_one gave, whether
\* the call issued an insert_one, how it ended and what it returned.
NoProjectCall ==
  [project_id |-> <<>>, record |-> None, inserted |-> FALSE,
   outcome |-> "none", ret |-> None]

InitProjects ==
  /\ vectordb = [name \in CollectionNames |-> NoCollection]
  /\ mongo = EmptyMongo
  /\ pc = [p \in ProjectCallers |-> "idle"]
  /\ last = [p \in ProjectCallers |-> NoProjectCall]

\* get_project_or_create_one is entered with its argument.
GetOrCreateStart(p) ==
  /\ pc[p] = "idle"
  /\ \E project_id \in ProjectIds :
       last' = [last EXCEPT ![p] = [NoProjectCall EXCEPT !.project_id = project_id]]
  /\ pc' = [pc EXCEPT ![p] = "find_one"]
  /\ UNCHANGED <<vectordb, mongo>>

\* await find_one; a record found is returned as a Project.
GetOrCreateFind(p) ==
  /\ pc[p] = "find_one"
  /\ LET record == find_one(mongo.projects, last[p].project_id)
     IN  IF RecordMissing(record)
         THEN /\ last' = [last EXCEPT ![p].record = record]
              /\ pc' = [pc EXCEPT ![p] = "insert_one"]
         ELSE /\ last' = [last EXCEPT ![p].record = record,
                                      ![p].outcome = "returned",
                                      ![p].ret = ProjectOf(record)]
              /\ pc' = [pc EXCEPT ![p] = "done"]
  /\ UNCHANGED <<vectordb, mongo>>

\* create_project: await insert_one, set the project's id, return it.
GetOrCreateInsert(p) ==
  /\ pc[p] = "insert_one"
  /\ LET project == NewProject(last[p].project_id)
         result == insert_one(mongo.projects, ProjectDict(project))
     IN  /\ mongo' = [mongo EXCEPT !.projects = result.coll]
         /\ last' = [last EXCEPT
                       ![p].inserted = TRUE,
                       ![p].outcome = IF result.raised THEN "raised"
                                      ELSE "returned",
                       ![p].ret = IF result.raised THEN None
                                  ELSE [project EXCEPT !.id = result.inserted_id]]
  /\ pc' = [pc EXCEPT ![p] = "done"]
  /\ UNCHANGED vectordb

NextProjects ==
  \E p \in ProjectCallers :
    \/ GetOrCreateStart(p)
    \/ GetOrCreateFind(p)
    \/ GetOrCreateInsert(p)

SpecProjects == InitProjects /\ [][NextProjects]_vars

(***************************************************************************)
(* C23: however concurrent get_project_or_create_one calls with the same   *)
(* project_id interleave, once they have ended exactly one project record  *)
(* with that project_id exists and every call has returned a project with  *)
(* that project_id; a call that found a record has not inserted.           *)
(***************************************************************************)
C23_GetOrCreateOnce ==
  /\ \A p \in ProjectCallers : ~IsNone(last[p].record) => ~last[p].inserted
  /\ (\A p \in ProjectCallers : pc[p] = "done") =>
       \A p \in ProjectCallers :
         /\ Cardinality({i \in 1..Len(mongo.projects) :
                           mongo.projects[i].project_id = last[p].project_id}) = 1
         /\ last[p].outcome = "returned"
         /\ last[p].ret.t = "Project"
         /\ last[p].ret.project_id = last[p].project_id

====
